---- MODULE Spec2Model ----
(***************************************************************************)
(* Track bookkeeping of yasfm (YASFM/sfm_data.cpp: Points, Dataset) and    *)
(* batch feature detection (YASFM/features.cpp: detectSiftGPU).            *)
(*                                                                         *)
(* Vectors are sequences; the code's 0-based positions are kept as the     *)
(* values of index arguments and shifted by one on access.  An             *)
(* unordered_map<int,int> is a function on a finite set of camera indices. *)
(* A call that ends in std::out_of_range (unordered_map::at on a missing   *)
(* key) leaves the object as the statements before the throw left it; the  *)
(* caller may catch and go on, so such states are states of the program.   *)
(***************************************************************************)
EXTENDS Integers, Sequences, FiniteSets, TLC

VARIABLES
  reconstructedCams,    \* Dataset::reconstructedCams_
  ptCoord,              \* Points::ptCoord_
  ptData,               \* Points::ptData_
  matchesToReconstruct, \* Points::matchesToReconstruct_
  lastOp,               \* the call made last: its name, camera, outcome
  \* batch detectSiftGPU (features.cpp)
  cams,                 \* *cams: the cameras handed to the batch call
  callbackFunction,     \* TRUE when the function pointer is not NULL
  callbackObjectPtr,    \* TRUE when the context pointer is not NULL
  at,                   \* where the call stands
  sift,                 \* the SiftGPU contexts created, with their pyramids
  success,              \* result of initializeSiftGPU
  done,                 \* the local counter `done`
  next,                 \* 0-based position of the range-for loop
  log,                  \* detections and callbacks in the order they happened
  \* Dataset copies (sfm_data.cpp)
  datasets,             \* the Dataset objects, by variable name
  heap,                 \* the Camera objects the unique_ptrs own, by address
  copyOp                \* the Dataset call made last

storeVars == <<reconstructedCams, ptCoord, ptData, matchesToReconstruct, lastOp>>
detectVars == <<cams, callbackFunction, callbackObjectPtr, at, sift, success, done,
                next, log>>
copyVars == <<datasets, heap, copyOp>>
vars == <<storeVars, detectVars, copyVars>>

-----------------------------------------------------------------------------
(* Bounds and input sets *)

MaxPts == 2     \* cap on the number of tracks held by the store

CamIdxs == 0 .. 2

\* Sequences over S of length at most n.
SeqsUpTo(S, n) == UNION {[1 .. k -> S] : k \in 0 .. n}

-----------------------------------------------------------------------------
(* std::unordered_map<int,int> (NViewMatch) *)

EmptyMap == [k \in {} |-> 0]

\* count(k) > 0: at(k) returns m[k], and throws std::out_of_range otherwise.
Has(m, k) == k \in DOMAIN m

\* emplace(k, v): inserts only when k is not a key yet.
Emplace(m, k, v) ==
  IF k \in DOMAIN m THEN m
  ELSE [x \in DOMAIN m \cup {k} |-> IF x = k THEN v ELSE m[x]]

\* m[k] = v: inserts or overwrites.
Assign(m, k, v) == [x \in DOMAIN m \cup {k} |-> IF x = k THEN v ELSE m[x]]

\* erase(k): no effect when k is not a key.
Erase(m, k) == [x \in DOMAIN m \ {k} |-> m[x]]

\* Points::PointData() as emplace_back() builds it.
EmptyPointData == [reconstructed |-> EmptyMap, toReconstruct |-> EmptyMap]

-----------------------------------------------------------------------------
(* Inputs: n-view matches, their splits, index lists *)

\* Observation index of camera c in the n-view matches used here.
ObsIdx(c) == c + 10

Restrict(m, S) == [x \in DOMAIN m \cap S |-> m[x]]

FullMatch == [c \in CamIdxs |-> ObsIdx(c)]

\* The n-view matches the matcher may produce: at least two cameras each.
NViewMatches ==
  {Restrict(FullMatch, S) : S \in {T \in SUBSET CamIdxs : Cardinality(T) >= 2}}

\* SplitNViewMatch: a match cut into an observed and an unobserved part.
SplitNViewMatches ==
  {[observedPart |-> Restrict(FullMatch, S),
    unobservedPart |-> Restrict(FullMatch, CamIdxs \ S)] :
     S \in {T \in SUBSET CamIdxs : 0 \in T}}

\* The 3D coordinate the triangulator hands over for a match: one point per
\* set of observing cameras.
PointOf(m) == <<"X", DOMAIN m>>

\* What the matcher left in the pending buffer before reconstruction starts.
InitialMatches ==
  {<<FullMatch, Restrict(FullMatch, {0, 1})>>,
   <<Restrict(FullMatch, {1, 2}), FullMatch>>}

\* Strictly increasing index lists over lo .. hi (a selection in order).
Increasing(lo, hi) ==
  {q \in SeqsUpTo(lo .. hi, hi - lo + 1) :
     \A a, b \in DOMAIN q : a < b => q[a] < q[b]}

-----------------------------------------------------------------------------
(* Vector helpers of the repository that are not among the listed sources *)

\* filterVector(keep, &arr): the elements whose mask bit is set, in order.
RECURSIVE FilterVector(_, _)
FilterVector(keep, arr) ==
  IF Len(arr) = 0 THEN <<>>
  ELSE IF Head(keep)
       THEN <<Head(arr)>> \o FilterVector(Tail(keep), Tail(arr))
       ELSE FilterVector(Tail(keep), Tail(arr))

\* filterOutOutliers(outliers, &arr): drops the listed 0-based positions.
FilterOutOutliers(outliers, arr) ==
  FilterVector([i \in 1 .. Len(arr) |->
                  \A j \in 1 .. Len(outliers) : outliers[j] + 1 # i], arr)

-----------------------------------------------------------------------------
(* Points *)

\* Points::addPoints(camsIdxs, matchesToReconstructIdxs, coord), the loop
\* from iteration i on.  The result is the set of outcomes: when at() throws
\* in `reconstructed[k] = nViewMatch.at(k)` the order of the two operands is
\* the compiler's, so operator[] may or may not have inserted k -> 0 already.
RECURSIVE AddPointsLoop(_, _, _, _, _, _, _)
AddPointsLoop(pc, pd, m, camsIdxs, idxs, coord, i) ==
  IF i > Len(coord)
  THEN {[ptCoord |-> pc, ptData |-> pd,
         matchesToReconstruct |-> FilterOutOutliers(idxs, m), threw |-> FALSE]}
  ELSE
    LET nViewMatch == m[idxs[i] + 1]
        pc1 == Append(pc, coord[i])
        Thrown(rec) ==
          [ptCoord |-> pc1,
           ptData |-> Append(pd, [reconstructed |-> rec, toReconstruct |-> EmptyMap]),
           matchesToReconstruct |-> m, threw |-> TRUE]
    IN
    IF ~Has(nViewMatch, camsIdxs.first)
    THEN {Thrown(EmptyMap), Thrown(Assign(EmptyMap, camsIdxs.first, 0))}
    ELSE
      LET r1 == Assign(EmptyMap, camsIdxs.first, nViewMatch[camsIdxs.first]) IN
      IF ~Has(nViewMatch, camsIdxs.second)
      THEN {Thrown(r1), Thrown(Assign(r1, camsIdxs.second, 0))}
      ELSE
        LET r2 == Assign(r1, camsIdxs.second, nViewMatch[camsIdxs.second])
            t2 == Erase(Erase(nViewMatch, camsIdxs.first), camsIdxs.second)
        IN AddPointsLoop(pc1,
                         Append(pd, [reconstructed |-> r2, toReconstruct |-> t2]),
                         m, camsIdxs, idxs, coord, i + 1)

\* A variant that forgets the trailing filterOutOutliers.
AddPoints_KeepsBuffer(pc, pd, m, camsIdxs, idxs, coord) ==
  {[o EXCEPT !.matchesToReconstruct = m] :
     o \in AddPointsLoop(pc, pd, m, camsIdxs, idxs, coord, 1)}

AddPoints(pc, pd, m, camsIdxs, idxs, coord) ==
  AddPointsLoop(pc, pd, m, camsIdxs, idxs, coord, 1)

\* Points::addPoints(pointCoord, pointViews).
RECURSIVE AddPointsSplitLoop(_, _, _, _, _)
AddPointsSplitLoop(pc, pd, pointCoord, pointViews, i) ==
  IF i > Len(pointCoord)
  THEN [ptCoord |-> pc, ptData |-> pd]
  ELSE AddPointsSplitLoop(
         Append(pc, pointCoord[i]),
         Append(pd, [reconstructed |-> pointViews[i].observedPart,
                     toReconstruct |-> pointViews[i].unobservedPart]),
         pointCoord, pointViews, i + 1)

AddPointsSplit(pc, pd, pointCoord, pointViews) ==
  AddPointsSplitLoop(pc, pd, pointCoord, pointViews, 1)

\* A variant that compacts the coordinates and forgets the track data.
RemovePoints_CoordOnly(pc, pd, keep) ==
  [ptCoord |-> FilterVector(keep, pc), ptData |-> pd]

\* Points::removePoints(keep).
RemovePoints(pc, pd, keep) ==
  [ptCoord |-> FilterVector(keep, pc), ptData |-> FilterVector(keep, pd)]

\* Points::markCamAsReconstructed(camIdx), the loop from entry i on.
RECURSIVE MarkCamLoop(_, _, _)
MarkCamLoop(pd, camIdx, i) ==
  IF i > Len(pd) THEN [ptData |-> pd, threw |-> FALSE]
  ELSE IF ~Has(pd[i].toReconstruct, camIdx) THEN [ptData |-> pd, threw |-> TRUE]
  ELSE MarkCamLoop(
         [pd EXCEPT ![i] =
            [reconstructed |-> Emplace(@.reconstructed, camIdx, @.toReconstruct[camIdx]),
             toReconstruct |-> Erase(@.toReconstruct, camIdx)]],
         camIdx, i + 1)

MarkCamAsReconstructed(pd, camIdx) == MarkCamLoop(pd, camIdx, 1)

\* Points::markCamAsReconstructed(camIdx, correspondingPoints,
\* correspondingPointsInliers): the first loop from inlier j on.
RECURSIVE InlierLoop(_, _, _, _, _)
InlierLoop(pd, camIdx, correspondingPoints, inliers, j) ==
  IF j > Len(inliers) THEN [ptData |-> pd, threw |-> FALSE]
  ELSE
    LET p == correspondingPoints[inliers[j] + 1] + 1 IN
    IF ~Has(pd[p].toReconstruct, camIdx) THEN [ptData |-> pd, threw |-> TRUE]
    ELSE InlierLoop(
           [pd EXCEPT ![p].reconstructed =
              Emplace(@, camIdx, pd[p].toReconstruct[camIdx])],
           camIdx, correspondingPoints, inliers, j + 1)

\* The second loop from candidate j on.
RECURSIVE EraseLoop(_, _, _, _)
EraseLoop(pd, camIdx, correspondingPoints, j) ==
  IF j > Len(correspondingPoints) THEN pd
  ELSE EraseLoop(
         [pd EXCEPT ![correspondingPoints[j] + 1].toReconstruct = Erase(@, camIdx)],
         camIdx, correspondingPoints, j + 1)

\* A variant that promotes every candidate, inlier or not.
MarkCamAsReconstructed2_PromoteAll(pd, camIdx, correspondingPoints, inliers) ==
  LET all == [k \in 1 .. Len(correspondingPoints) |-> k - 1]
      r == InlierLoop(pd, camIdx, correspondingPoints, all, 1) IN
  IF r.threw THEN r
  ELSE [ptData |-> EraseLoop(r.ptData, camIdx, correspondingPoints, 1),
        threw |-> FALSE]

MarkCamAsReconstructed2(pd, camIdx, correspondingPoints, inliers) ==
  LET r == InlierLoop(pd, camIdx, correspondingPoints, inliers, 1) IN
  IF r.threw THEN r
  ELSE [ptData |-> EraseLoop(r.ptData, camIdx, correspondingPoints, 1),
        threw |-> FALSE]

-----------------------------------------------------------------------------
(* Dataset *)

\* Dataset::markCamAsReconstructed(camIdx): the registered set first, then
\* the track store.
DatasetMarkCam(rc, pd, camIdx) ==
  LET r == MarkCamAsReconstructed(pd, camIdx) IN
  [reconstructedCams |-> rc \cup {camIdx}, ptData |-> r.ptData, threw |-> r.threw]

\* A variant that forwards to the track store without registering the camera.
DatasetMarkCam2_NoInsert(rc, pd, camIdx, correspondingPoints, inliers) ==
  LET r == MarkCamAsReconstructed2(pd, camIdx, correspondingPoints, inliers) IN
  [reconstructedCams |-> rc, ptData |-> r.ptData, threw |-> r.threw]

\* Dataset::markCamAsReconstructed(camIdx, correspondingPoints,
\* correspondingPointsInliers).
DatasetMarkCam2(rc, pd, camIdx, correspondingPoints, inliers) ==
  LET r == MarkCamAsReconstructed2(pd, camIdx, correspondingPoints, inliers) IN
  [reconstructedCams |-> rc \cup {camIdx}, ptData |-> r.ptData, threw |-> r.threw]

-----------------------------------------------------------------------------
(* The calls as steps of one Points store inside one Dataset *)

numPts == Len(ptCoord)

\* Tracks (1-based positions) where camIdx entered `reconstructed`, and where
\* it left `toReconstruct` without entering `reconstructed`, between pd and pd2.
Promoted(pd, pd2, camIdx) ==
  {i \in DOMAIN pd : /\ ~Has(pd[i].reconstructed, camIdx)
                     /\ Has(pd2[i].reconstructed, camIdx)}
Dropped(pd, pd2, camIdx) ==
  {i \in DOMAIN pd : /\ Has(pd[i].toReconstruct, camIdx)
                     /\ ~Has(pd2[i].toReconstruct, camIdx)
                     /\ ~Has(pd2[i].reconstructed, camIdx)}

\* The record of the last call: which one, on which camera, whether it ended
\* in an exception, how many tracks there were before it, and what it did to
\* the camera's entries.
Op(name, camIdx, threw, pd2) ==
  [name |-> name, camIdx |-> camIdx, threw |-> threw, numPtsBefore |-> Len(ptData),
   promoted |-> IF camIdx \in CamIdxs THEN Promoted(ptData, pd2, camIdx) ELSE {},
   dropped |-> IF camIdx \in CamIdxs THEN Dropped(ptData, pd2, camIdx) ELSE {}]

\* No batch detection under way.
DetectIdle ==
  /\ cams = <<>>
  /\ callbackFunction = FALSE
  /\ callbackObjectPtr = FALSE
  /\ at = "idle"
  /\ sift = <<>>
  /\ success = FALSE
  /\ done = 0
  /\ next = 0
  /\ log = <<>>

\* No Dataset objects under observation.
CopyIdle ==
  /\ datasets = <<>>
  /\ heap = <<>>
  /\ copyOp = [name |-> "none"]

NoOp ==
  [name |-> "none", camIdx |-> -1, threw |-> FALSE, numPtsBefore |-> 0,
   promoted |-> {}, dropped |-> {}]

Init ==
  /\ reconstructedCams = {}
  /\ ptCoord = <<>>
  /\ ptData = <<>>
  /\ matchesToReconstruct \in InitialMatches
  /\ lastOp = NoOp
  /\ DetectIdle
  /\ CopyIdle

\* Argument sets of the calls in the current state.
PairArgs == {pr \in CamIdxs \X CamIdxs : pr[1] # pr[2]}
IdxsArgs == SeqsUpTo(0 .. Len(matchesToReconstruct) - 1, MaxPts - numPts)
ViewsArgs == UNION {[1 .. n -> SplitNViewMatches] : n \in 1 .. MaxPts - numPts}
KeepArgs == [1 .. numPts -> BOOLEAN]
CandidateArgs == Increasing(0, numPts - 1)
InlierArgs(correspondingPoints) == Increasing(0, Len(correspondingPoints) - 1)

CoordsOf(idxs) ==
  [i \in 1 .. Len(idxs) |-> PointOf(matchesToReconstruct[idxs[i] + 1])]

AddPointsOutcome(out) ==
  /\ ptCoord' = out.ptCoord
  /\ ptData' = out.ptData
  /\ matchesToReconstruct' = out.matchesToReconstruct
  /\ lastOp' = Op("addPoints", -1, out.threw, out.ptData)
  /\ UNCHANGED reconstructedCams

CallAddPoints(pr, idxs) ==
  \E out \in AddPoints(ptCoord, ptData, matchesToReconstruct,
                       [first |-> pr[1], second |-> pr[2]], idxs, CoordsOf(idxs)) :
    AddPointsOutcome(out)

CallAddPointsSplit(pointViews) ==
  LET pointCoord == [i \in 1 .. Len(pointViews) |-> PointOf(FullMatch)]
      out == AddPointsSplit(ptCoord, ptData, pointCoord, pointViews)
  IN /\ ptCoord' = out.ptCoord
     /\ ptData' = out.ptData
     /\ lastOp' = Op("addPointsSplit", -1, FALSE, out.ptData)
     /\ UNCHANGED <<reconstructedCams, matchesToReconstruct>>

CallRemovePoints(keep) ==
  LET out == RemovePoints(ptCoord, ptData, keep) IN
    /\ numPts > 0
    /\ ptCoord' = out.ptCoord
    /\ ptData' = out.ptData
    /\ lastOp' = Op("removePoints", -1, FALSE, out.ptData)
    /\ UNCHANGED <<reconstructedCams, matchesToReconstruct>>

CallMarkCam(camIdx) ==
  LET out == MarkCamAsReconstructed(ptData, camIdx) IN
    /\ ptData' = out.ptData
    /\ lastOp' = Op("markCamAsReconstructed", camIdx, out.threw, out.ptData)
    /\ UNCHANGED <<reconstructedCams, ptCoord, matchesToReconstruct>>

CallMarkCam2(camIdx, correspondingPoints, inliers) ==
  LET out == MarkCamAsReconstructed2(ptData, camIdx, correspondingPoints, inliers) IN
    /\ ptData' = out.ptData
    /\ lastOp' = Op("markCamAsReconstructed2", camIdx, out.threw, out.ptData)
    /\ UNCHANGED <<reconstructedCams, ptCoord, matchesToReconstruct>>

CallDatasetMarkCam(camIdx) ==
  LET out == DatasetMarkCam(reconstructedCams, ptData, camIdx) IN
    /\ reconstructedCams' = out.reconstructedCams
    /\ ptData' = out.ptData
    /\ lastOp' = Op("Dataset::markCamAsReconstructed", camIdx, out.threw, out.ptData)
    /\ UNCHANGED <<ptCoord, matchesToReconstruct>>

CallDatasetMarkCam2(camIdx, correspondingPoints, inliers) ==
  LET out == DatasetMarkCam2(reconstructedCams, ptData, camIdx, correspondingPoints,
                             inliers) IN
    /\ reconstructedCams' = out.reconstructedCams
    /\ ptData' = out.ptData
    /\ lastOp' = Op("Dataset::markCamAsReconstructed2", camIdx, out.threw, out.ptData)
    /\ UNCHANGED <<ptCoord, matchesToReconstruct>>

AddPointsStep ==
  /\ \E pr \in PairArgs, idxs \in IdxsArgs : CallAddPoints(pr, idxs)
  /\ UNCHANGED <<detectVars, copyVars>>
AddPointsSplitStep ==
  /\ \E pointViews \in ViewsArgs : CallAddPointsSplit(pointViews)
  /\ UNCHANGED <<detectVars, copyVars>>
RemovePointsStep ==
  /\ \E keep \in KeepArgs : CallRemovePoints(keep)
  /\ UNCHANGED <<detectVars, copyVars>>
MarkCamStep ==
  /\ \E camIdx \in CamIdxs : CallMarkCam(camIdx)
  /\ UNCHANGED <<detectVars, copyVars>>
MarkCam2Step ==
  /\ \E camIdx \in CamIdxs, correspondingPoints \in CandidateArgs :
       \E inliers \in InlierArgs(correspondingPoints) :
         CallMarkCam2(camIdx, correspondingPoints, inliers)
  /\ UNCHANGED <<detectVars, copyVars>>
DatasetMarkCamStep ==
  /\ \E camIdx \in CamIdxs : CallDatasetMarkCam(camIdx)
  /\ UNCHANGED <<detectVars, copyVars>>
DatasetMarkCam2Step ==
  /\ \E camIdx \in CamIdxs, correspondingPoints \in CandidateArgs :
       \E inliers \in InlierArgs(correspondingPoints) :
         CallDatasetMarkCam2(camIdx, correspondingPoints, inliers)
  /\ UNCHANGED <<detectVars, copyVars>>

\* The track store on its own.
Next ==
  \/ AddPointsStep
  \/ AddPointsSplitStep
  \/ RemovePointsStep
  \/ MarkCamStep
  \/ MarkCam2Step

Spec == Init /\ [][Next]_vars

\* The track store driven through its Dataset.
NextDataset ==
  \/ AddPointsStep
  \/ AddPointsSplitStep
  \/ RemovePointsStep
  \/ DatasetMarkCamStep
  \/ DatasetMarkCam2Step

SpecDataset == Init /\ [][NextDataset]_vars

-----------------------------------------------------------------------------
(* Properties of the track store *)

Keys(t) == DOMAIN t.reconstructed \cup DOMAIN t.toReconstruct

\* The cameras a coordinate was triangulated from (see PointOf).
OriginOf(pt) == pt[2]

\* How many of the positions 1 .. i are in K: where position i of a vector
\* lands once only the positions in K are kept.
Rank(K, i) == Cardinality({j \in K : j <= i})

\* out is arr cut down to the positions in K, order kept.
IsSelection(out, arr, K) ==
  /\ Len(out) = Cardinality(K)
  /\ \A i \in K : out[Rank(K, i)] = arr[i]

MarkNames == {"markCamAsReconstructed", "Dataset::markCamAsReconstructed"}
Mark2Names == {"markCamAsReconstructed2", "Dataset::markCamAsReconstructed2"}

\* C1: in every reachable state every track's reconstructed and
\* toReconstruct maps have no camera index in common.
C1_PartitionDisjoint ==
  \A i \in DOMAIN ptData :
    DOMAIN ptData[i].reconstructed \cap DOMAIN ptData[i].toReconstruct = {}

\* C2: unconditional markCamAsReconstructed(c) completes on any track store,
\* moves c with its observation index from toReconstruct to reconstructed in
\* every track that had it pending, leaves every other track unchanged, and
\* afterwards no track has c in toReconstruct.
C2_MarkCamTotal ==
  [][lastOp'.name = "markCamAsReconstructed" =>
       LET c == lastOp'.camIdx IN
       /\ ~lastOp'.threw
       /\ Len(ptData') = Len(ptData)
       /\ \A i \in DOMAIN ptData :
            IF Has(ptData[i].toReconstruct, c)
            THEN /\ Has(ptData'[i].reconstructed, c)
                 /\ ptData'[i].reconstructed[c] = ptData[i].toReconstruct[c]
                 /\ ptData'[i].toReconstruct = Erase(ptData[i].toReconstruct, c)
            ELSE ptData'[i] = ptData[i]
       /\ \A i \in DOMAIN ptData' : ~Has(ptData'[i].toReconstruct, c)]_vars

\* The positions of correspondingPoints that inliers selects, and the tracks
\* (1-based) behind a set of such positions.
TracksAt(correspondingPoints, positions) ==
  {correspondingPoints[k] + 1 : k \in positions}
InlierPositions(inliers) == {inliers[j] + 1 : j \in DOMAIN inliers}

\* What C3 says of one two-tier call on the store, before (pd) and after
\* (pd2); `strict` selects the claim's wording for the candidates that are
\* not inliers (camIdx absent from reconstructed) or the amended one
\* (reconstructed left as it was).
TwoTierPost(pd, pd2, camIdx, correspondingPoints, inliers, strict) ==
  LET inl == TracksAt(correspondingPoints, InlierPositions(inliers))
      cand == TracksAt(correspondingPoints, DOMAIN correspondingPoints)
  IN
  /\ Len(pd2) = Len(pd)
  /\ \A p \in inl :
       /\ Has(pd2[p].reconstructed, camIdx)
       /\ pd2[p].reconstructed[camIdx] = pd[p].toReconstruct[camIdx]
  /\ \A p \in cand \ inl :
       IF strict THEN ~Has(pd2[p].reconstructed, camIdx)
       ELSE pd2[p].reconstructed = pd[p].reconstructed
  /\ \A p \in cand : ~Has(pd2[p].toReconstruct, camIdx)
  /\ \A p \in DOMAIN pd \ cand : pd2[p] = pd[p]

InliersPending(pd, camIdx, correspondingPoints, inliers) ==
  \A p \in TracksAt(correspondingPoints, InlierPositions(inliers)) :
    Has(pd[p].toReconstruct, camIdx)

C5_RemovePointsAligned ==
  [][/\ Len(ptCoord) = Len(ptData)
     /\ Len(ptCoord') = Len(ptData')
     /\ lastOp'.name = "removePoints" =>
          \A keep \in KeepArgs :
            CallRemovePoints(keep) =>
              LET K == {i \in DOMAIN keep : keep[i]} IN
              /\ IsSelection(ptCoord', ptCoord, K)
              /\ IsSelection(ptData', ptData, K)]_vars

\* removePoints has dropped the first of two different tracks and kept the
\* second.
C5_Witness ==
  /\ lastOp.name = "removePoints"
  /\ lastOp.numPtsBefore = 2
  /\ Len(ptCoord) = 1
  /\ Len(ptData) = 1
  /\ OriginOf(ptCoord[1]) # CamIdxs
  /\ Keys(ptData[1]) # CamIdxs

\* What C6 says of one addPoints(cameraPair, matchIndices, coordinates) call.
SeedPost(pr, idxs) ==
  LET n == Len(ptData) IN
  /\ ~lastOp'.threw
  /\ Len(ptData') = n + Len(idxs)
  /\ Len(ptCoord') = n + Len(idxs)
  /\ \A i \in 1 .. n : ptData'[i] = ptData[i] /\ ptCoord'[i] = ptCoord[i]
  /\ \A i \in DOMAIN idxs :
       LET nv == matchesToReconstruct[idxs[i] + 1] IN
       /\ ptCoord'[n + i] = CoordsOf(idxs)[i]
       /\ ptData'[n + i].reconstructed = Restrict(nv, {pr[1], pr[2]})
       /\ DOMAIN ptData'[n + i].reconstructed = {pr[1], pr[2]}
       /\ ptData'[n + i].toReconstruct = Restrict(nv, DOMAIN nv \ {pr[1], pr[2]})
  /\ IsSelection(matchesToReconstruct', matchesToReconstruct,
                 DOMAIN matchesToReconstruct \ {idxs[i] + 1 : i \in DOMAIN idxs})

PairInMatches(pr, idxs) ==
  \A i \in DOMAIN idxs :
    /\ Has(matchesToReconstruct[idxs[i] + 1], pr[1])
    /\ Has(matchesToReconstruct[idxs[i] + 1], pr[2])

\* C6 as claimed: when both cameras of the pair are keys of every referenced
\* match, addPoints appends one track per coordinate, seeded from its match,
\* the buffer keeps exactly the matches not referenced, and no match becomes
\* a track twice.
C6_SeedAsClaimed ==
  [][lastOp'.name = "addPoints" => \A pr \in PairArgs, idxs \in IdxsArgs :
       (PairInMatches(pr, idxs) /\ CallAddPoints(pr, idxs))
       => /\ SeedPost(pr, idxs)
          /\ \A i, j \in DOMAIN idxs : i # j => idxs[i] # idxs[j]]_vars

\* C6 amended: the same, except that a match referenced at several positions
\* of matchIndices seeds one track per position; a consumed match is gone
\* from the buffer, so no later call can turn it into a track again.
C6_Seed ==
  [][lastOp'.name = "addPoints" => \A pr \in PairArgs, idxs \in IdxsArgs :
       (PairInMatches(pr, idxs) /\ CallAddPoints(pr, idxs))
       => SeedPost(pr, idxs)]_vars

\* addPoints has completed and appended a track with two reconstructed
\* cameras and a pending third, and the buffer has shrunk.
C6_Witness ==
  /\ lastOp.name = "addPoints"
  /\ ~lastOp.threw
  /\ Len(ptData) > lastOp.numPtsBefore
  /\ Cardinality(DOMAIN ptData[Len(ptData)].reconstructed) = 2
  /\ ptData[Len(ptData)].toReconstruct # EmptyMap
  /\ Len(matchesToReconstruct) < 2

\* C10: a track's key set reconstructed \cup toReconstruct never leaves the
\* observation set it was created from and never grows from one state to the
\* next, and an entry of reconstructed is never removed or changed.
C10_UnionOnlyShrinks ==
  [][/\ \A i \in DOMAIN ptData' : Keys(ptData'[i]) \subseteq OriginOf(ptCoord'[i])
     /\ lastOp'.name \in MarkNames \cup Mark2Names =>
          /\ Len(ptData') = Len(ptData)
          /\ \A i \in DOMAIN ptData :
               /\ Keys(ptData'[i]) \subseteq Keys(ptData[i])
               /\ \A c \in DOMAIN ptData[i].reconstructed :
                    /\ Has(ptData'[i].reconstructed, c)
                    /\ ptData'[i].reconstructed[c] = ptData[i].reconstructed[c]
     /\ lastOp'.name \in {"addPoints", "addPointsSplit"} =>
          \A i \in DOMAIN ptData : ptData'[i] = ptData[i]
     /\ lastOp'.name = "removePoints" =>
          \E keep \in KeepArgs : ptData' = FilterVector(keep, ptData)]_vars

-----------------------------------------------------------------------------
(* Properties of the Dataset around its track store *)

Registered == {"Dataset::markCamAsReconstructed", "Dataset::markCamAsReconstructed2"}

\* C4 as claimed: between operations no camera of reconstructedCams is still
\* listed in some track's toReconstruct, and every camera that
\* Dataset::markCamAsReconstructed promoted in a track is in reconstructedCams.
C4_RegisteredNeverPending ==
  [][/\ \A c \in reconstructedCams' :
          \A i \in DOMAIN ptData' : ~Has(ptData'[i].toReconstruct, c)
     /\ lastOp'.name \in Registered =>
          (lastOp'.promoted # {} => lastOp'.camIdx \in reconstructedCams')]_vars

\* C4 amended: every Dataset::markCamAsReconstructed call, completed or not,
\* leaves camIdx in reconstructedCams and removes nothing from it, so every
\* camera it promoted in a track is registered; after a completed
\* unconditional call no track lists camIdx in toReconstruct, after a
\* completed two-tier call no track of candidateTracks does.  (A registered
\* camera can stay pending in tracks outside candidateTracks and in tracks
\* added later.)
C4_Registration ==
  [][/\ reconstructedCams \subseteq reconstructedCams'
     /\ lastOp'.name \in Registered =>
          /\ lastOp'.camIdx \in reconstructedCams'
          /\ \A i \in DOMAIN ptData :
               \A c \in DOMAIN ptData'[i].reconstructed \ DOMAIN ptData[i].reconstructed :
                 c \in reconstructedCams'
     /\ (lastOp'.name = "Dataset::markCamAsReconstructed" /\ ~lastOp'.threw) =>
          \A i \in DOMAIN ptData' : ~Has(ptData'[i].toReconstruct, lastOp'.camIdx)
     /\ (lastOp'.name = "Dataset::markCamAsReconstructed2" /\ ~lastOp'.threw) =>
          \A correspondingPoints \in CandidateArgs :
            \A inliers \in InlierArgs(correspondingPoints) :
              CallDatasetMarkCam2(lastOp'.camIdx, correspondingPoints, inliers)
              => \A p \in TracksAt(correspondingPoints, DOMAIN correspondingPoints) :
                   ~Has(ptData'[p].toReconstruct, lastOp'.camIdx)]_vars

\* A two-tier Dataset call has completed and promoted the camera in one
\* track, the camera is registered, and a track that was no candidate still
\* lists it as pending.
C4_Witness ==
  /\ lastOp.name = "Dataset::markCamAsReconstructed2"
  /\ ~lastOp.threw
  /\ lastOp.promoted # {}
  /\ lastOp.camIdx \in reconstructedCams
  /\ \E i \in DOMAIN ptData : Has(ptData[i].toReconstruct, lastOp.camIdx)

\* C7: a call that ends in a precondition violation leaves the registered
\* set, the tracks and the pending buffer either exactly as they were or
\* fully updated (for markCamAsReconstructed: the camera registered where
\* the Dataset is the callee, and pending in no track any more).
C7_AllOrNothing ==
  [][lastOp'.threw =>
       \/ UNCHANGED <<reconstructedCams, ptCoord, ptData, matchesToReconstruct>>
       \/ /\ lastOp'.name \in MarkNames \cup Mark2Names
          /\ \A i \in DOMAIN ptData' : ~Has(ptData'[i].toReconstruct, lastOp'.camIdx)]_vars

-----------------------------------------------------------------------------
(* Batch feature detection: yasfm::detectSiftGPU(opt, cams, callbackFunction,
   callbackObjectPtr) *)

MaxDetectCams == 3    \* most cameras in a batch

ImgWidths == {640, 800}
ImgHeights == {480, 600}

\* A camera as the batch sees it: image dimensions, whether RunSIFT can
\* process its image, and whether features were written into it.
DetectCameras ==
  [imgWidth : ImgWidths, imgHeight : ImgHeights, runs : BOOLEAN, features : {FALSE}]

Max(a, b) == IF a >= b THEN a ELSE b

\* The first loop: the largest width or height over the cameras, from -1.
RECURSIVE MaxDim(_, _, _)
MaxDim(cs, field, acc) ==
  IF cs = <<>> THEN acc ELSE MaxDim(Tail(cs), field, Max(acc, Head(cs)[field]))

InitDetect ==
  /\ reconstructedCams = {}
  /\ ptCoord = <<>>
  /\ ptData = <<>>
  /\ matchesToReconstruct = <<>>
  /\ lastOp = NoOp
  /\ cams \in SeqsUpTo(DetectCameras, MaxDetectCams)
  /\ callbackFunction \in BOOLEAN
  /\ callbackObjectPtr \in BOOLEAN
  /\ at = "entry"
  /\ sift = <<>>
  /\ success = FALSE
  /\ done = 0
  /\ next = 0
  /\ log = <<>>
  /\ CopyIdle

\* Lines 40-53: the maxima, one context, initializeSiftGPU (CreateContextGL
\* succeeds or not), the early return.
Initialize ==
  /\ at = "entry"
  /\ \E supported \in BOOLEAN :
       /\ success' = supported
       /\ sift' = Append(sift,
                    [pyramid |-> IF supported
                                 THEN <<MaxDim(cams, "imgWidth", -1),
                                        MaxDim(cams, "imgHeight", -1)>>
                                 ELSE <<>>])
       /\ at' = IF supported THEN "loop" ELSE "returned"
  /\ done' = 0
  /\ next' = 0
  /\ UNCHANGED <<cams, callbackFunction, callbackObjectPtr, log, storeVars, copyVars>>

\* Line 56: ::detectSiftGPU(sift.get(), pcam.get()) on the camera the loop
\* stands at, with the one context.
DetectCamera ==
  /\ at = "loop"
  /\ next < Len(cams)
  /\ cams' = [cams EXCEPT ![next + 1].features = cams[next + 1].runs]
  /\ log' = Append(log, [event |-> "detect", cam |-> next, context |-> Len(sift)])
  /\ at' = "callback"
  /\ UNCHANGED <<callbackFunction, callbackObjectPtr, sift, success, done, next,
                 storeVars, copyVars>>

\* Lines 57-61: the callback when both pointers are set, then done++ and on
\* to the next camera.
Callback ==
  /\ at = "callback"
  /\ log' = IF callbackFunction /\ callbackObjectPtr
            THEN Append(log, [event |-> "callback", arg |-> done])
            ELSE log
  /\ done' = done + 1
  /\ next' = next + 1
  /\ at' = "loop"
  /\ UNCHANGED <<cams, callbackFunction, callbackObjectPtr, sift, success, storeVars, copyVars>>

\* The loop is over: the function returns.
Return ==
  /\ at = "loop"
  /\ next >= Len(cams)
  /\ at' = "returned"
  /\ UNCHANGED <<cams, callbackFunction, callbackObjectPtr, sift, success, done, next,
                 log, storeVars, copyVars>>

NextDetect ==
  \/ Initialize
  \/ DetectCamera
  \/ Callback
  \/ Return

SpecDetect == InitDetect /\ [][NextDetect]_vars

\* The log the claim describes after k cameras: with both pointers set,
\* detection of camera i-1 then the callback with argument i, for i = 1 .. k;
\* detections alone otherwise.
ClaimedLog(k) ==
  IF callbackFunction /\ callbackObjectPtr
  THEN [j \in 1 .. 2 * k |->
          IF j % 2 = 1
          THEN [event |-> "detect", cam |-> (j - 1) \div 2, context |-> 1]
          ELSE [event |-> "callback", arg |-> j \div 2]]
  ELSE [j \in 1 .. k |-> [event |-> "detect", cam |-> j - 1, context |-> 1]]

\* C8: with an initialized context the cameras are processed one at a time
\* in collection order with the single context; when both pointers are set
\* the callback fires once per camera, after its detection and before the
\* next one, with the number of cameras completed so far (1 after the first,
\* n after the last); when a pointer is null it never fires and every camera
\* is still processed.
C8_CallbackCount ==
  /\ Len(sift) <= 1
  /\ at \in {"loop", "returned"} /\ success => log = ClaimedLog(next)
  /\ at = "returned" /\ success => next = Len(cams)

-----------------------------------------------------------------------------
(* Dataset copies: Dataset(const Dataset&), operator= and copyIn *)

MaxCameras == 3       \* Camera objects allocated over a behaviour
MaxCopyPts == 1       \* tracks a Dataset of this part holds at most

DatasetNames == {"a", "b"}
CopyCamIdxs == {1}
CopyViews == {v \in SplitNViewMatches : 2 \notin DOMAIN v.observedPart}

\* A variable not holding a constructed Dataset yet.
NoDataset ==
  [constructed |-> FALSE, dir |-> "", cams |-> <<>>, pairs |-> {},
   reconstructedCams |-> {}, ptCoord |-> <<>>, ptData |-> <<>>,
   matchesToReconstruct |-> <<>>]

\* Dataset::Dataset(dir): every other member default-constructed.
NewDataset(dir) == [NoDataset EXCEPT !.constructed = TRUE, !.dir = dir]

\* Camera::clone(): a new Camera object copy-constructed from cam.
Clone(cam) == [imgFilename |-> cam.imgFilename, descr |-> cam.descr]

\* Dataset::copyIn(o) on the object self: the clones are pushed onto the
\* cameras self holds, the other members are assigned.
CopyIn(self, o, hp) ==
  LET n == Len(o.cams)
      base == Len(hp)
  IN [dataset |-> [self EXCEPT
                     !.dir = o.dir,
                     !.cams = self.cams \o [i \in 1 .. n |-> base + i],
                     !.pairs = o.pairs,
                     !.reconstructedCams = o.reconstructedCams,
                     !.ptCoord = o.ptCoord,
                     !.ptData = o.ptData,
                     !.matchesToReconstruct = o.matchesToReconstruct],
      heap |-> hp \o [i \in 1 .. n |-> Clone(hp[o.cams[i]])]]

\* Dataset::clearDescriptors(): every camera the dataset holds drops its
\* descriptors.
ClearDescriptors(self, hp) ==
  [a \in DOMAIN hp |->
     IF \E i \in DOMAIN self.cams : self.cams[i] = a
     THEN [hp[a] EXCEPT !.descr = FALSE]
     ELSE hp[a]]

InitCopy ==
  /\ reconstructedCams = {}
  /\ ptCoord = <<>>
  /\ ptData = <<>>
  /\ matchesToReconstruct = <<>>
  /\ lastOp = NoOp
  /\ DetectIdle
  /\ datasets = [d \in DatasetNames |-> IF d = "a" THEN NewDataset("a") ELSE NoDataset]
  /\ heap = <<>>
  /\ copyOp = [name |-> "none"]

Constructed(d) == datasets[d].constructed

\* Dataset b(dir).
Construct(d) ==
  /\ ~Constructed(d)
  /\ datasets' = [datasets EXCEPT ![d] = NewDataset(d)]
  /\ copyOp' = [name |-> "Dataset", target |-> d]
  /\ UNCHANGED <<heap, storeVars, detectVars>>

\* Dataset t(o): the members are default-constructed, then copyIn(o).
CopyConstruct(t, o) ==
  /\ ~Constructed(t)
  /\ Constructed(o)
  /\ Len(heap) + Len(datasets[o].cams) <= MaxCameras
  /\ LET r == CopyIn([NoDataset EXCEPT !.constructed = TRUE], datasets[o], heap) IN
       /\ datasets' = [datasets EXCEPT ![t] = r.dataset]
       /\ heap' = r.heap
  /\ copyOp' = [name |-> "copy", target |-> t, source |-> o]
  /\ UNCHANGED <<storeVars, detectVars>>

\* t = o, on two distinct constructed objects.
Assignment(t, o) ==
  /\ t # o
  /\ Constructed(t)
  /\ Constructed(o)
  /\ Len(heap) + Len(datasets[o].cams) <= MaxCameras
  /\ LET r == CopyIn(datasets[t], datasets[o], heap) IN
       /\ datasets' = [datasets EXCEPT ![t] = r.dataset]
       /\ heap' = r.heap
  /\ copyOp' = [name |-> "operator=", target |-> t, source |-> o]
  /\ UNCHANGED <<storeVars, detectVars>>

\* d.cams().push_back(make_unique<Camera>(...)) through the mutable accessor.
PushCamera(d) ==
  /\ Constructed(d)
  /\ Len(heap) < MaxCameras
  /\ heap' = Append(heap, [imgFilename |-> Len(heap), descr |-> TRUE])
  /\ datasets' = [datasets EXCEPT ![d].cams = Append(@, Len(heap) + 1)]
  /\ copyOp' = [name |-> "cams", target |-> d]
  /\ UNCHANGED <<storeVars, detectVars>>

\* d.pairs()[IntPair(0,1)]: an entry for the pair through the mutable accessor.
InsertPair(d) ==
  /\ Constructed(d)
  /\ datasets' = [datasets EXCEPT ![d].pairs = @ \cup {<<0, 1>>}]
  /\ copyOp' = [name |-> "pairs", target |-> d]
  /\ UNCHANGED <<heap, storeVars, detectVars>>

\* d.clearDescriptors().
CallClearDescriptors(d) ==
  /\ Constructed(d)
  /\ heap' = ClearDescriptors(datasets[d], heap)
  /\ copyOp' = [name |-> "clearDescriptors", target |-> d]
  /\ UNCHANGED <<datasets, storeVars, detectVars>>

\* d.markCamAsReconstructed(camIdx).
CopyMarkCam(d, camIdx) ==
  /\ Constructed(d)
  /\ LET r == DatasetMarkCam(datasets[d].reconstructedCams, datasets[d].ptData, camIdx) IN
       datasets' = [datasets EXCEPT ![d].reconstructedCams = r.reconstructedCams,
                                    ![d].ptData = r.ptData]
  /\ copyOp' = [name |-> "markCamAsReconstructed", target |-> d]
  /\ UNCHANGED <<heap, storeVars, detectVars>>

\* d.points().addPoints(coord, views) with one point.
CopyAddPoints(d, views) ==
  /\ Constructed(d)
  /\ Len(datasets[d].ptCoord) < MaxCopyPts
  /\ LET r == AddPointsSplit(datasets[d].ptCoord, datasets[d].ptData,
                             <<PointOf(FullMatch)>>, <<views>>) IN
       datasets' = [datasets EXCEPT ![d].ptCoord = r.ptCoord, ![d].ptData = r.ptData]
  /\ copyOp' = [name |-> "addPoints", target |-> d]
  /\ UNCHANGED <<heap, storeVars, detectVars>>

\* d.points().removePoints(keep).
CopyRemovePoints(d) ==
  /\ Constructed(d)
  /\ Len(datasets[d].ptCoord) > 0
  /\ \E keep \in [1 .. Len(datasets[d].ptCoord) -> BOOLEAN] :
       LET r == RemovePoints(datasets[d].ptCoord, datasets[d].ptData, keep) IN
         datasets' = [datasets EXCEPT ![d].ptCoord = r.ptCoord, ![d].ptData = r.ptData]
  /\ copyOp' = [name |-> "removePoints", target |-> d]
  /\ UNCHANGED <<heap, storeVars, detectVars>>

NextCopy ==
  \/ \E d \in DatasetNames : Construct(d)
  \/ \E t \in DatasetNames, o \in DatasetNames : CopyConstruct(t, o)
  \/ \E t \in DatasetNames, o \in DatasetNames : Assignment(t, o)
  \/ \E d \in DatasetNames : PushCamera(d)
  \/ \E d \in DatasetNames : InsertPair(d)
  \/ \E d \in DatasetNames : CallClearDescriptors(d)
  \/ \E d \in DatasetNames, camIdx \in CopyCamIdxs : CopyMarkCam(d, camIdx)
  \/ \E d \in DatasetNames, views \in CopyViews : CopyAddPoints(d, views)
  \/ \E d \in DatasetNames : CopyRemovePoints(d)

SpecCopy == InitCopy /\ [][NextCopy]_vars

\* The Camera objects a dataset holds, in order.
CamerasOf(ds, hp) == [i \in 1 .. Len(ds.cams) |-> hp[ds.cams[i]]]

\* The target equals the source, camera for camera, and shares no Camera
\* object with it.
IsCopyOf(t, o, hp) ==
  /\ Len(t.cams) = Len(o.cams)
  /\ CamerasOf(t, hp) = CamerasOf(o, hp)
  /\ \A i \in DOMAIN t.cams, j \in DOMAIN o.cams : t.cams[i] # o.cams[j]
  /\ t.pairs = o.pairs
  /\ t.reconstructedCams = o.reconstructedCams
  /\ t.ptCoord = o.ptCoord
  /\ t.ptData = o.ptData
  /\ t.matchesToReconstruct = o.matchesToReconstruct

\* C9: after a copy construction or an assignment (onto a dataset that may
\* already hold cameras) the target's cameras have the length and order of
\* the source's, each an independent clone, and its pairs, registered
\* cameras and points equal the source's; afterwards markCamAsReconstructed,
\* addPoints or removePoints on one dataset leaves the other as it was.
C9_CopyIsIndependent ==
  [][/\ copyOp'.name \in {"copy", "operator="} =>
          IsCopyOf(datasets'[copyOp'.target], datasets'[copyOp'.source], heap')
     /\ copyOp'.name \in {"markCamAsReconstructed", "addPoints", "removePoints"} =>
          \A d \in DatasetNames \ {copyOp'.target} :
            /\ datasets'[d] = datasets[d]
            /\ CamerasOf(datasets'[d], heap') = CamerasOf(datasets[d], heap)]_vars

====
